---- MODULE Spec2Model ----
(***************************************************************************)
(* SageVox converter: the convert command (canonical chapter numbering,    *)
(* metadata merge, run selection, the per-chapter run loop) and the        *)
(* chunked synthesis of one chapter (sentence batches, proportional        *)
(* timestamps).                                                            *)
(*                                                                         *)
(* Times are counted in PCM bytes: one unit is 1/48000 s, the duration of  *)
(* one byte of 24 kHz 16-bit mono audio, so _audio_duration is the         *)
(* identity on byte counts and 0.01 s is 480 units.                        *)
(***************************************************************************)
EXTENDS Integers, Sequences, FiniteSets, TLC

\* tts_service.py:18
MAX_CHUNK_CHARS == 4000

\* Longest sentence list drawn for the chunker and for one synthesis.
MaxSentences == 3

\* Sections of the source document.
NumSections == 2

\* Calls of synthesize_chapter over all the runs of one behaviour.
MaxSynth == 2

\* Sentence lengths drawn for the chunker: around the budget and its half.
ChunkLens == {1, 1999, 2000, 3999, 4000, 4001}

\* Sentence lengths drawn for one synthesis: one sentence over the budget,
\* the others packing two or three to a batch.
SynthLens == {1000, 2000, 3000, 5000}

\* What the provider answers for one batch: PCM byte counts (no audio, 200
\* bytes = 4 ms, 48000 bytes = 1 s), or ProviderError when the call raises.
AudioSizes == {0, 200, 48000}
ProviderError == -1

\* The answers drawn in the runs of convert: no audio, or 0.5042 s, which is
\* not a whole number of hundredths of a second.
ConvertAudioSizes == {0, 24200}

VARIABLES
    ck_sentences,   \* _chunk_sentences: the argument
    ck_chunks,      \* _chunk_sentences: the value returned
    ck_done,        \* whether _chunk_sentences has returned
    sy_sentences,   \* synthesize_chapter: the sentences of chapter.text_content
    sy_result,      \* synthesize_chapter: what it returned or that it raised
    sy_done,        \* whether synthesize_chapter has ended
    sy_style_prompt, \* synthesize_chapter: the style_prompt argument
    sy_narrator_style, \* synthesize_chapter: the narrator_style argument
    sy_env,         \* synthesis: what the provider, the disk and ffmpeg answered
    sy_sent,        \* the texts the provider was called with, in order
    ex_doc,         \* _extract_content_from_anchor: the document (soup)
    ex_anchor,      \* the entry's anchor ("" when the href has none)
    ex_next_anchor, \* the anchor of the next entry of the same file, or None
    ex_text,        \* the text extracted for the entry
    ex_done,        \* whether the extraction has returned
    ft_outline,     \* _flatten_toc: the outline, as the parent of each entry
    ft_toc,         \* _flatten_toc: the argument (book.toc)
    ft_result,      \* _flatten_toc: the value returned
    ft_done,        \* whether _flatten_toc has returned
    ps_parts,       \* parse_section_selection: the parts the string was written from
    ps_selection,   \* parse_section_selection: the selection string
    ps_max_index,   \* parse_section_selection: max_index
    ps_result,      \* parse_section_selection: the list returned
    ps_done,        \* whether parse_section_selection has returned
    pe_toc,         \* parse_epub_sections: the flattened ToC entries
    pe_docs,        \* parse_epub_sections: the word count of each document
    pe_sections,    \* parse_epub_sections: the sections returned
    pe_done,        \* parse_epub_sections has returned
    rt_metadata,    \* save and load: the BookMetadata value saved
    rt_data,        \* save and load: the dict written to metadata.json
    rt_loaded,      \* save and load: the BookMetadata value loaded from it
    rt_pc,          \* save and load: "idle", "new", "saved", "loaded"
    sections,       \* parsed.sections: the source document, parsed
    disk_metadata,  \* metadata.json in the output directory
    wav_files,      \* chapter-NN.wav: its PCM byte count, or -1 when absent
    mp3_files,      \* chapter-NN.mp3: its size in bytes, or -1 when absent
    transcript_files, \* whether chapter-NN-transcript.json exists
    pc,             \* convert: "ready", "selected", "loop", "done", "returned", "crashed"
    existing_metadata, \* convert: the metadata loaded for the merge
    metadata,       \* convert: metadata.chapters (= parsed.chapters)
    section_selection, \* convert: the --sections string given, until the run loop
    sections_selected, \* convert: the --sections selection parsed, until the run loop
    chapters_to_process, \* convert: positions in metadata of the chapters of this run
    pos,            \* convert: the position of the run loop in chapters_to_process
    skip_existing_chapters, \* convert: skip_existing and not force
    outcome,        \* per chapter number, how the run loop left it in this run
    provider_calls, \* per chapter number, whether this run called the provider for it
    synth_count,    \* calls of synthesize_chapter so far, over all runs
    everBound,      \* chapter numbers metadata.json has bound to audio so far
    forceUsed,      \* whether some run so far was given --force
    last_written    \* per chapter number, the artifact the last synthesis that returned wrote

chunkVars == <<ck_sentences, ck_chunks, ck_done>>
synthVars == <<sy_sentences, sy_result, sy_done, sy_style_prompt,
               sy_narrator_style, sy_env, sy_sent>>
extractVars == <<ex_doc, ex_anchor, ex_next_anchor, ex_text, ex_done>>
flattenVars == <<ft_outline, ft_toc, ft_result, ft_done>>
selectionVars == <<ps_parts, ps_selection, ps_max_index, ps_result, ps_done>>
roundTripVars == <<rt_metadata, rt_data, rt_loaded, rt_pc>>
parseVars == <<pe_toc, pe_docs, pe_sections, pe_done>>
callVars == <<extractVars, flattenVars, selectionVars, roundTripVars, parseVars>>
diskVars == <<disk_metadata, wav_files, mp3_files, transcript_files>>
runVars == <<pc, existing_metadata, metadata, section_selection,
             sections_selected,
             chapters_to_process, pos,
             skip_existing_chapters, outcome, provider_calls>>
histVars == <<synth_count, everBound, forceUsed, last_written>>
convertVars == <<sections, diskVars, runVars, histVars>>
vars == <<chunkVars, synthVars, callVars, convertVars>>

-----------------------------------------------------------------------------
(* Sequences *)

RECURSIVE Flatten(_)
Flatten(ss) == IF ss = <<>> THEN <<>> ELSE Head(ss) \o Flatten(Tail(ss))

RECURSIVE SumLen(_)
\* sum(len(s) for s in group)
SumLen(group) == IF group = <<>> THEN 0 ELSE Head(group).len + SumLen(Tail(group))

\* len(" ".join(group)): the sentences and one separator between neighbours
JoinedLen(group) == IF group = <<>> THEN 0 ELSE SumLen(group) + Len(group) - 1

\* A sentence is its position in the text and its length in characters.
SentenceLists(lens) ==
    UNION { { [i \in 1..n |-> [id |-> i, len |-> f[i]]] : f \in [1..n -> lens] }
            : n \in 0..MaxSentences }

-----------------------------------------------------------------------------
(* GeminiTTSService._chunk_sentences *)

\* tts_service.py:178-179 and 186-187: if current_chunk: chunks.append(...)
Flush(chunks, current_chunk) ==
    IF current_chunk # <<>> THEN Append(chunks, current_chunk) ELSE chunks

\* The overflow branch without its flush: the full chunk is dropped when the
\* next one is started.
ChunkStepDropFull(st, sentence) ==
    IF st.current_length + sentence.len + 1 > MAX_CHUNK_CHARS
    THEN [chunks |-> st.chunks,
          current_chunk |-> <<sentence>>,
          current_length |-> sentence.len]
    ELSE [chunks |-> st.chunks,
          current_chunk |-> Append(st.current_chunk, sentence),
          current_length |-> st.current_length + sentence.len + 1]

\* The loop without the budget test: every sentence joins the open chunk.
ChunkStepNoSplit(st, sentence) ==
    [chunks |-> st.chunks,
     current_chunk |-> Append(st.current_chunk, sentence),
     current_length |-> st.current_length + sentence.len + 1]

\* The loop that gives every sentence a chunk of its own.
ChunkStepOnePerBatch(st, sentence) ==
    [chunks |-> Flush(st.chunks, st.current_chunk),
     current_chunk |-> <<sentence>>,
     current_length |-> sentence.len]

\* tts_service.py:174-184: one iteration of the loop over the sentences
ChunkStep(st, sentence) ==
    IF st.current_length + sentence.len + 1 > MAX_CHUNK_CHARS
    THEN [chunks |-> Flush(st.chunks, st.current_chunk),
          current_chunk |-> <<sentence>>,
          current_length |-> sentence.len]
    ELSE [chunks |-> st.chunks,
          current_chunk |-> Append(st.current_chunk, sentence),
          current_length |-> st.current_length + sentence.len + 1]

RECURSIVE ChunkLoop(_, _)
ChunkLoop(st, sentences) ==
    IF sentences = <<>> THEN st
    ELSE ChunkLoop(ChunkStep(st, Head(sentences)), Tail(sentences))

\* tts_service.py:168-189
chunk_sentences(sentences) ==
    LET st == ChunkLoop([chunks |-> <<>>, current_chunk |-> <<>>,
                         current_length |-> 0], sentences)
    IN  Flush(st.chunks, st.current_chunk)

-----------------------------------------------------------------------------
(* Exact fractions <<numerator, denominator>>, denominator > 0, in lowest    *)
(* terms: the model's stand-in for Python floats, rounding aside.            *)

RECURSIVE GCD(_, _)
GCD(a, b) == IF b = 0 THEN a ELSE GCD(b, a % b)

Abs(x) == IF x < 0 THEN -x ELSE x

Rat(n, d) ==
    LET g == GCD(Abs(n), d) IN IF n = 0 THEN <<0, 1>> ELSE <<n \div g, d \div g>>

RatAdd(a, b) == Rat(a[1] * b[2] + b[1] * a[2], a[2] * b[2])

RatLeq(a, b) == a[1] * b[2] <= b[1] * a[2]

-----------------------------------------------------------------------------
(* GeminiTTSService.synthesize_chapter *)

\* tts_service.py:314-318: the size of a chapter-NN.wav that wave.open began
\* and whose write raised (no space left): an empty file, which wave.open
\* cannot read back.  -1 is the size of a file that does not exist.
Unreadable == -2

NoFile == [num |-> 0, ext |-> "none"]

\* f"chapter-{number:02d}.{ext}"
AudioName(number, ext) == [num |-> number, ext |-> ext]

\* tts_service.py:241-243, in units of 1/48000 s
audio_duration(audio_bytes) == audio_bytes

\* tts_service.py:292-299: the share of the batch's duration given to a sentence
SentenceDuration(chunk_duration, sentence, sentence_group) ==
    IF SumLen(sentence_group) > 0
    THEN Rat(chunk_duration * sentence.len, SumLen(sentence_group))
    ELSE Rat(chunk_duration, Len(sentence_group))

RECURSIVE SegmentLoop(_, _, _, _)
\* tts_service.py:294-306: st is [segments, current_time]
SegmentLoop(rest, sentence_group, chunk_duration, st) ==
    IF rest = <<>> THEN st
    ELSE LET d == SentenceDuration(chunk_duration, Head(rest), sentence_group)
             seg == [text |-> Head(rest).id,
                     start |-> st.current_time,
                     end |-> RatAdd(st.current_time, d)]
         IN  SegmentLoop(Tail(rest), sentence_group, chunk_duration,
                         [segments |-> Append(st.segments, seg),
                          current_time |-> RatAdd(st.current_time, d)])

\* The cursor restarted at every batch instead of running across the chapter.
ChunkSegmentsRestart(sentence_group, audio_bytes, st) ==
    SegmentLoop(sentence_group, sentence_group, audio_duration(audio_bytes),
                [segments |-> st.segments, current_time |-> <<0, 1>>])

\* tts_service.py:289-306: the segments of one batch, from its audio
ChunkSegments(sentence_group, audio_bytes, st) ==
    SegmentLoop(sentence_group, sentence_group, audio_duration(audio_bytes), st)

RECURSIVE BatchLoop(_, _, _, _)
\* tts_service.py:278-308: st is [segments, current_time, all_audio]
BatchLoop(chunks, audio, chunk_idx, st) ==
    IF chunk_idx > Len(chunks) THEN st
    ELSE LET t == ChunkSegments(chunks[chunk_idx], audio[chunk_idx],
                                [segments |-> st.segments,
                                 current_time |-> st.current_time])
         IN  BatchLoop(chunks, audio, chunk_idx + 1,
                       [segments |-> t.segments,
                        current_time |-> t.current_time,
                        all_audio |-> st.all_audio + audio[chunk_idx]])

\* The batches the provider is called for: all of them, or up to the first
\* call that raises.
ProviderCalls(chunks, audio) ==
    IF \E i \in 1..Len(chunks) : audio[i] = ProviderError
    THEN CHOOSE i \in 1..Len(chunks) :
             /\ audio[i] = ProviderError
             /\ \A j \in 1..(i - 1) : audio[j] # ProviderError
    ELSE Len(chunks)

\* The synthesis with no fallback: the .mp3 name is returned and the .wav
\* removed whether the conversion worked or not.
SynthesizeNoFallback(number, sentences, audio, wav_ok, ffmpeg_ok) ==
    LET chunks == chunk_sentences(sentences)
        calls == ProviderCalls(chunks, audio)
    IN  IF \E i \in 1..Len(chunks) : audio[i] = ProviderError
        THEN [raised |-> TRUE, calls |-> calls, audio_file |-> NoFile,
              duration |-> 0, segments |-> <<>>, wav |-> -1, mp3 |-> -1]
        ELSE IF ~wav_ok
        THEN [raised |-> TRUE, calls |-> calls, audio_file |-> NoFile,
              duration |-> 0, segments |-> <<>>, wav |-> Unreadable, mp3 |-> -1]
        ELSE LET st == BatchLoop(chunks, audio, 1,
                                 [segments |-> <<>>, current_time |-> <<0, 1>>,
                                  all_audio |-> 0])
             IN  [raised |-> FALSE, calls |-> calls,
                  audio_file |-> AudioName(number, "mp3"),
                  duration |-> audio_duration(st.all_audio),
                  segments |-> st.segments,
                  wav |-> -1,
                  mp3 |-> IF ffmpeg_ok THEN st.all_audio \div 2 ELSE -1]

\* tts_service.py:245-355. audio[i] is the provider's answer for batch i,
\* ffmpeg_ok whether the transcoder is found and exits 0. The value is what
\* the call returns (audio_file, duration, segments), whether it raised, how
\* many provider calls it made and which artifacts it wrote:
\* wav is the size of chapter-NN.wav left on disk (-1: none), mp3 that of a
\* chapter-NN.mp3 written (-1: none written).
synthesize_chapter(number, sentences, audio, wav_ok, ffmpeg_ok) ==
    LET chunks == chunk_sentences(sentences)
        calls == ProviderCalls(chunks, audio)
    IN  IF \E i \in 1..Len(chunks) : audio[i] = ProviderError
        THEN [raised |-> TRUE, calls |-> calls, audio_file |-> NoFile,
              duration |-> 0, segments |-> <<>>, wav |-> -1, mp3 |-> -1]
        ELSE IF ~wav_ok
        THEN [raised |-> TRUE, calls |-> calls, audio_file |-> NoFile,
              duration |-> 0, segments |-> <<>>, wav |-> Unreadable, mp3 |-> -1]
        ELSE LET st == BatchLoop(chunks, audio, 1,
                                 [segments |-> <<>>, current_time |-> <<0, 1>>,
                                  all_audio |-> 0])
                 total_duration == audio_duration(st.all_audio)
             IN  [raised |-> FALSE, calls |-> calls,
                  audio_file |-> AudioName(number, IF ffmpeg_ok THEN "mp3" ELSE "wav"),
                  duration |-> total_duration,
                  segments |-> st.segments,
                  wav |-> IF ffmpeg_ok THEN -1 ELSE st.all_audio,
                  mp3 |-> IF ffmpeg_ok THEN st.all_audio \div 2 ELSE -1]

\* A text sent to the provider is a sequence of pieces: a style prompt, the
\* blank line after it, the reminder, the sentences and the spaces that
\* join them.
BlankLine == [piece |-> "\n\n"]
Space == [piece |-> " "]

\* tts_service.py:21-97: the preset names and their (non-empty) prompts
NARRATOR_STYLES == {"classic", "dramatic", "calm", "energetic"}
StylePrompt(name) == <<[style |-> name]>>

\* tts_service.py:192-194
CONSISTENCY_REMINDER == <<[piece |-> "reminder"], BlankLine>>

\* style_prompt = None, and the custom prompts drawn: the empty string and
\* a text.
NoStylePrompt == [given |-> FALSE, text |-> <<>>]
StylePromptArgs ==
    {NoStylePrompt, [given |-> TRUE, text |-> <<>>],
     [given |-> TRUE, text |-> StylePrompt("custom")]}
NarratorStyleArgs == {"classic", "calm", "unknown"}

\* tts_service.py:264-265
ResolveStyle(style_prompt, narrator_style) ==
    IF ~style_prompt.given
    THEN StylePrompt(IF narrator_style \in NARRATOR_STYLES
                     THEN narrator_style ELSE "classic")
    ELSE style_prompt.text

RECURSIVE ChunkText(_)
\* " ".join(sentence_group)
ChunkText(sentence_group) ==
    IF Len(sentence_group) <= 1 THEN sentence_group
    ELSE <<Head(sentence_group), Space>> \o ChunkText(Tail(sentence_group))

\* The style prompt put before every batch, whatever its index.
FullTextAlwaysPrimed(text, chunk_index, style_prompt) ==
    style_prompt \o <<BlankLine>> \o text

\* tts_service.py:204-211: full_text
FullText(text, chunk_index, style_prompt) ==
    IF chunk_index = 0 /\ style_prompt # <<>>
    THEN style_prompt \o <<BlankLine>> \o text
    ELSE IF chunk_index > 0
    THEN CONSISTENCY_REMINDER \o text
    ELSE text

\* tts_service.py:264-287: the texts of the provider calls of one chapter
SentTexts(sentences, audio, style_prompt, narrator_style) ==
    LET chunks == chunk_sentences(sentences)
        style == ResolveStyle(style_prompt, narrator_style)
    IN  [i \in 1..ProviderCalls(chunks, audio) |->
            FullText(ChunkText(chunks[i]), i - 1, style)]

\* Every answer the provider can give for the batches of a sentence list.
AudioAnswers(sentences, sizes) ==
    [1..Len(chunk_sentences(sentences)) -> sizes \cup {ProviderError}]

-----------------------------------------------------------------------------
(* The source document, as parse_epub_sections returns it *)

Sentence(i, n) == [id |-> i, len |-> n]

\* A title is its text and, for "Part", the number that follows.
PartTitle(i) == [text |-> "Part", n |-> i]
DedicationTitle == [text |-> "Dedication", n |-> 0]

\* The sections a document can hold at index i: narration ("content"), a
\* section of headings whose heading-stripped text is under 50 characters
\* ("thin"), one under 100 words ("small"), one whose title is front matter.
SectionKinds == {"content", "thin", "small", "front"}

SectionOf(i, kind) ==
    [index |-> i,
     title |-> IF kind = "front" THEN DedicationTitle ELSE PartTitle(i),
     word_count |-> IF kind = "small" THEN 80 ELSE 150,
     text_content |-> IF kind = "thin"
                      THEN <<Sentence(1, 3990), Sentence(2, 10)>>
                      ELSE <<Sentence(1, 20), Sentence(2, 3000)>>,
     body |-> IF kind = "thin"
              THEN <<Sentence(1, 10)>>
              ELSE <<Sentence(1, 3000)>>]

Documents == { [i \in 1..NumSections |-> SectionOf(i, k[i])] :
               k \in [1..NumSections -> SectionKinds] }

ChapterNums == 1..NumSections

Range(f) == { f[i] : i \in DOMAIN f }

RECURSIVE SetToSortedSeq(_)
\* sorted(set(...))
SetToSortedSeq(S) ==
    IF S = {} THEN <<>>
    ELSE LET m == CHOOSE x \in S : \A y \in S : x <= y
         IN  <<m>> \o SetToSortedSeq(S \ {m})

-----------------------------------------------------------------------------
(* convert: the canonical chapter list *)

\* cli.py:143-147, on the titles of the model
FrontMatterTitles == {"Dedication"}

\* cli.py:152-157
IsContent(section) ==
    /\ ~(section.word_count < 100)
    /\ section.title.text \notin FrontMatterTitles

\* cli.py:140-158
all_content_indices(secs) ==
    SelectSeq([i \in 1..Len(secs) |-> secs[i].index],
              LAMBDA idx : \E i \in 1..Len(secs) :
                               secs[i].index = idx /\ IsContent(secs[i]))

\* models.py:9-17; sec is the section the chapter was made from
NewChapter(chapter_num, section, text_content) ==
    [number |-> chapter_num, title |-> section.title, sec |-> section.index,
     text_content |-> text_content, audio_file |-> NoFile,
     transcript_file |-> NoFile, duration_seconds |-> 0]

RECURSIVE SectionsToChaptersLoop(_, _, _, _, _)
\* epub_parser.py:362-381: st is [chapters, chapter_num]
SectionsToChaptersLoop(secs, i, selected_indices, exclude_headings, st) ==
    IF i > Len(secs) THEN st.chapters
    ELSE LET section == secs[i]
             chapter_num == st.chapter_num + 1
             text_content == IF exclude_headings THEN section.body
                             ELSE section.text_content
         IN  IF section.index \in Range(selected_indices)
             THEN IF text_content = <<>> \/ JoinedLen(text_content) < 50
                  THEN SectionsToChaptersLoop(secs, i + 1, selected_indices,
                           exclude_headings,
                           [chapters |-> st.chapters, chapter_num |-> chapter_num])
                  ELSE SectionsToChaptersLoop(secs, i + 1, selected_indices,
                           exclude_headings,
                           [chapters |-> Append(st.chapters,
                                NewChapter(chapter_num, section, text_content)),
                            chapter_num |-> chapter_num])
             ELSE SectionsToChaptersLoop(secs, i + 1, selected_indices,
                      exclude_headings, st)

\* epub_parser.py:344-383
sections_to_chapters(secs, selected_indices, exclude_headings) ==
    SectionsToChaptersLoop(secs, 1, selected_indices, exclude_headings,
                           [chapters |-> <<>>, chapter_num |-> 0])

\* The chapter list built from the sections the run selected, when it
\* selected some, instead of from all content sections.
AssembleSelected(secs, selected_indices, include_headings) ==
    sections_to_chapters(secs,
        IF selected_indices # <<>>
        THEN SelectSeq(all_content_indices(secs),
                       LAMBDA idx : idx \in Range(selected_indices))
        ELSE all_content_indices(secs),
        ~include_headings)

\* cli.py:140-164: parsed.chapters, whatever the run selects
AssembleChapters(secs, selected_indices, include_headings) ==
    sections_to_chapters(secs, all_content_indices(secs), ~include_headings)

-----------------------------------------------------------------------------
(* convert: metadata.json, load, save and merge *)

NoMetadata ==
    [exists |-> FALSE, readable |-> FALSE, total_chapters |-> 0,
     total_duration_seconds |-> 0, chapters |-> <<>>]

\* models.py:60: the file open(metadata_path, "w") leaves when nothing, or
\* only a part of the JSON text, is written after it
TruncatedMetadata ==
    [exists |-> TRUE, readable |-> FALSE, total_chapters |-> 0,
     total_duration_seconds |-> 0, chapters |-> <<>>]

\* cli.py:174-180: what the run loads; a file json.load cannot read is
\* reported and the run goes on as if there were none
LoadExisting(file) ==
    IF file.exists /\ file.readable THEN file ELSE NoMetadata

\* round(x, 2) of a duration: to the nearest 0.01 s = 480 units
Round2(d) == 480 * ((d + 240) \div 480)

\* models.py:19-26
ChapterToDict(ch) ==
    [number |-> ch.number, title |-> ch.title, audio_file |-> ch.audio_file,
     transcript_file |-> ch.transcript_file,
     duration_seconds |-> Round2(ch.duration_seconds)]

RECURSIVE SumDurations(_)
\* cli.py:342
SumDurations(chapters) ==
    IF chapters = <<>> THEN 0
    ELSE Head(chapters).duration_seconds + SumDurations(Tail(chapters))

\* The file written with the total of the chapters of this run alone.
SavedMetadataRunTotal(chapters) ==
    [exists |-> TRUE, readable |-> TRUE,
     total_chapters |-> Len(chapters),
     total_duration_seconds |->
         Round2(SumDurations(SelectSeq(chapters,
                    LAMBDA ch : outcome[ch.number] # "none"))),
     chapters |-> [i \in 1..Len(chapters) |-> ChapterToDict(chapters[i])]]

\* cli.py:342-344 and models.py:43-61: the file BookMetadata.save writes
SavedMetadata(chapters) ==
    [exists |-> TRUE, readable |-> TRUE,
     total_chapters |-> Len(chapters),
     total_duration_seconds |-> Round2(SumDurations(chapters)),
     chapters |-> [i \in 1..Len(chapters) |-> ChapterToDict(chapters[i])]]

\* The merge without the audio binding: only the transcript is carried over.
MergeChapterNoAudio(new_ch, existing_chapters) ==
    IF \E k \in 1..Len(existing_chapters) : existing_chapters[k].number = new_ch.number
    THEN LET k == CHOOSE k \in 1..Len(existing_chapters) :
                      /\ existing_chapters[k].number = new_ch.number
                      /\ \A j \in (k + 1)..Len(existing_chapters) :
                             existing_chapters[j].number # new_ch.number
             old_ch == existing_chapters[k]
         IN  [new_ch EXCEPT
                 !.transcript_file = IF old_ch.transcript_file # NoFile
                                     THEN old_ch.transcript_file ELSE @]
    ELSE new_ch

\* The merge that carries the file names over and leaves the duration.
MergeChapterNoDuration(new_ch, existing_chapters) ==
    IF \E k \in 1..Len(existing_chapters) : existing_chapters[k].number = new_ch.number
    THEN LET k == CHOOSE k \in 1..Len(existing_chapters) :
                      existing_chapters[k].number = new_ch.number
             old_ch == existing_chapters[k]
         IN  [new_ch EXCEPT
                 !.audio_file = IF old_ch.audio_file # NoFile
                                THEN old_ch.audio_file ELSE @,
                 !.transcript_file = IF old_ch.transcript_file # NoFile
                                     THEN old_ch.transcript_file ELSE @]
    ELSE new_ch

\* cli.py:188-197: existing_map keeps the last chapter of each number
MergeChapter(new_ch, existing_chapters) ==
    IF \E k \in 1..Len(existing_chapters) : existing_chapters[k].number = new_ch.number
    THEN LET k == CHOOSE k \in 1..Len(existing_chapters) :
                      /\ existing_chapters[k].number = new_ch.number
                      /\ \A j \in (k + 1)..Len(existing_chapters) :
                             existing_chapters[j].number # new_ch.number
             old_ch == existing_chapters[k]
         IN  [new_ch EXCEPT
                 !.audio_file = IF old_ch.audio_file # NoFile
                                THEN old_ch.audio_file ELSE @,
                 !.duration_seconds = IF old_ch.audio_file # NoFile
                                      THEN old_ch.duration_seconds ELSE @,
                 !.transcript_file = IF old_ch.transcript_file # NoFile
                                     THEN old_ch.transcript_file ELSE @]
    ELSE new_ch

\* The merge step left out: the new chapter list is used as assembled.
MergedChaptersFresh(chapters, existing) == chapters

\* The merge followed by a renumbering of the list by position.
MergedChaptersRenumbered(chapters, existing) ==
    [i \in 1..Len(chapters) |->
        [(IF existing.exists THEN MergeChapter(chapters[i], existing.chapters)
          ELSE chapters[i]) EXCEPT !.number = i]]

\* cli.py:183-197
MergedChapters(chapters, existing) ==
    IF existing.exists
    THEN [i \in 1..Len(chapters) |-> MergeChapter(chapters[i], existing.chapters)]
    ELSE chapters

-----------------------------------------------------------------------------
(* convert: the chapters of this run *)

\* --end-chapter not given
NoEnd == 0

Positions(chapters) == [i \in 1..Len(chapters) |-> i]

\* The selection mapped by position with no test of the lengths.
ChaptersToProcessUnchecked(chapters, content_indices, selection, start_chapter, end_chapter) ==
    IF selection # <<>>
    THEN SelectSeq(Positions(chapters),
                   LAMBDA i : content_indices[i] \in Range(selection))
    ELSE SelectSeq(Positions(chapters),
                   LAMBDA i : /\ chapters[i].number >= start_chapter
                              /\ (end_chapter = NoEnd \/ chapters[i].number <= end_chapter))

\* cli.py:224-241, as positions in metadata.chapters
ChaptersToProcess(chapters, content_indices, selected_indices, start_chapter, end_chapter) ==
    IF selected_indices # <<>>
    THEN IF Len(chapters) = Len(content_indices)
         THEN SelectSeq(Positions(chapters),
                        LAMBDA i : content_indices[i] \in Range(selected_indices))
         ELSE Positions(chapters)
    ELSE SelectSeq(Positions(chapters),
                   LAMBDA i : /\ chapters[i].number >= start_chapter
                              /\ (end_chapter = NoEnd \/ chapters[i].number <= end_chapter))

\* The run loop stopped by the first chapter that raises.
AbortOnError(p, n) == n + 1

\* cli.py:332-334: continue, on to the next chapter
NextAfterError(p, n) == p + 1

\* f"chapter-{number:02d}-transcript.json"
TranscriptName(number) == [num |-> number, ext |-> "json"]

\* cli.py:292-299: the duration read from the artifact found
ExistingDuration(wav_size, mp3_size) ==
    IF mp3_size >= 0 THEN 2 * mp3_size ELSE 2 * (wav_size \div 2)

\* The skip test looking for the .mp3 alone: a chapter left as .wav is not
\* found.
ShouldSkipMp3Only(skip, mp3_size, wav_size) == skip /\ mp3_size >= 0

\* cli.py:290
ShouldSkip(skip, mp3_size, wav_size) == skip /\ (mp3_size >= 0 \/ wav_size # -1)

\* cli.py:292-299, 310: existing is the .mp3 if there is one (stat), else the
\* .wav (wave.open, which raises on a file it cannot read)
ExistingReadable(mp3_size, wav_size) == mp3_size >= 0 \/ wav_size >= 0


\* cli.py:268
SkipExistingChapters(skip_existing, force) == skip_existing /\ ~force

ConvertIdle ==
    /\ sections = <<>>
    /\ disk_metadata = NoMetadata
    /\ wav_files = [n \in ChapterNums |-> -1]
    /\ mp3_files = [n \in ChapterNums |-> -1]
    /\ transcript_files = [n \in ChapterNums |-> FALSE]
    /\ pc = "ready"
    /\ existing_metadata = NoMetadata
    /\ metadata = <<>>
    /\ section_selection = <<>>
    /\ sections_selected = <<>>
    /\ chapters_to_process = <<>>
    /\ pos = 1
    /\ skip_existing_chapters = TRUE
    /\ outcome = [n \in ChapterNums |-> "none"]
    /\ provider_calls = [n \in ChapterNums |-> FALSE]
    /\ synth_count = 0
    /\ everBound = {}
    /\ forceUsed = FALSE
    /\ last_written = [n \in ChapterNums |-> NoFile]

-----------------------------------------------------------------------------
(* The chunker applied to every bounded sentence list *)

\* Before the call: nothing was answered yet.
NoSynthEnv == [audio |-> <<>>, wav_ok |-> TRUE, ffmpeg_ok |-> TRUE]

SynthIdle ==
    /\ sy_sentences = <<>>
    /\ sy_result = [raised |-> FALSE, calls |-> 0, audio_file |-> NoFile,
                    duration |-> 0, segments |-> <<>>, wav |-> -1, mp3 |-> -1]
    /\ sy_done = FALSE
    /\ sy_style_prompt = NoStylePrompt
    /\ sy_narrator_style = "classic"
    /\ sy_env = NoSynthEnv
    /\ sy_sent = <<>>

ChunkIdle ==
    /\ ck_sentences = <<>>
    /\ ck_chunks = <<>>
    /\ ck_done = FALSE

ExtractIdle ==
    /\ ex_doc = <<>>
    /\ ex_anchor = 0
    /\ ex_next_anchor = 0
    /\ ex_text = <<>>
    /\ ex_done = FALSE

FlattenIdle ==
    /\ ft_outline = <<>>
    /\ ft_toc = <<>>
    /\ ft_result = <<>>
    /\ ft_done = FALSE

SelectionIdle ==
    /\ ps_parts = <<>>
    /\ ps_selection = <<>>
    /\ ps_max_index = 0
    /\ ps_result = <<>>
    /\ ps_done = FALSE

\* models.py:30-41: a BookMetadata value with every field empty
NoBook ==
    [id |-> "", title |-> "", author |-> "", description |-> "",
     narrator_voice |-> "", language_code |-> "", cover_image |-> "",
     total_chapters |-> 0, total_duration_seconds |-> 0, chapters |-> <<>>]

RoundTripIdle ==
    /\ rt_metadata = NoBook
    /\ rt_data = NoBook
    /\ rt_loaded = NoBook
    /\ rt_pc = "idle"

ParseIdle ==
    /\ pe_toc = <<>>
    /\ pe_docs = <<>>
    /\ pe_sections = <<>>
    /\ pe_done = FALSE

CallIdle ==
    ExtractIdle /\ FlattenIdle /\ SelectionIdle /\ RoundTripIdle /\ ParseIdle

InitChunk ==
    /\ ck_sentences \in SentenceLists(ChunkLens)
    /\ ck_chunks = <<>>
    /\ ck_done = FALSE
    /\ SynthIdle
    /\ CallIdle
    /\ ConvertIdle

ChunkCall ==
    /\ ~ck_done
    /\ ck_chunks' = chunk_sentences(ck_sentences)
    /\ ck_done' = TRUE
    /\ UNCHANGED <<ck_sentences, synthVars, callVars, convertVars>>

NextChunk == ChunkCall

SpecChunk == InitChunk /\ [][NextChunk]_vars

\* C8: the batches, concatenated in order, are exactly the sentence list given:
\* no sentence is lost, duplicated, reordered or split.
ChunksConcatToInput == ck_done => Flatten(ck_chunks) = ck_sentences

\* C8 witness: a list of three sentences was split into more than one batch.
ChunksConcatWitness ==
    ck_done /\ Len(ck_sentences) = 3 /\ Len(ck_chunks) >= 2

\* C9: a batch over the budget is one sentence of the input, unmodified, and
\* every batch of two or more sentences is within the budget.
ChunkBudget ==
    ck_done =>
        \A i \in 1..Len(ck_chunks) :
            /\ ck_chunks[i] # <<>>
            /\ JoinedLen(ck_chunks[i]) > MAX_CHUNK_CHARS =>
                   /\ Len(ck_chunks[i]) = 1
                   /\ \E k \in 1..Len(ck_sentences) : ck_chunks[i][1] = ck_sentences[k]
            /\ Len(ck_chunks[i]) >= 2 => JoinedLen(ck_chunks[i]) <= MAX_CHUNK_CHARS

\* C9 witness: one batch is a single sentence over the budget and another
\* batch packs two sentences within it.
ChunkBudgetWitness ==
    /\ ck_done
    /\ \E i \in 1..Len(ck_chunks) : JoinedLen(ck_chunks[i]) > MAX_CHUNK_CHARS
    /\ \E i \in 1..Len(ck_chunks) : Len(ck_chunks[i]) >= 2

-----------------------------------------------------------------------------
(* One chapter synthesized, for every bounded sentence list and every answer *)
(* of the provider and the transcoder                                        *)

InitSynth ==
    /\ sy_sentences \in SentenceLists(SynthLens) \ {<<>>}
    /\ sy_result = [raised |-> FALSE, calls |-> 0, audio_file |-> NoFile,
                    duration |-> 0, segments |-> <<>>, wav |-> -1, mp3 |-> -1]
    /\ sy_done = FALSE
    /\ sy_style_prompt \in StylePromptArgs
    /\ sy_narrator_style \in NarratorStyleArgs
    /\ sy_env = NoSynthEnv
    /\ sy_sent = <<>>
    /\ ChunkIdle
    /\ CallIdle
    /\ ConvertIdle

SynthCall ==
    /\ ~sy_done
    /\ \E audio \in AudioAnswers(sy_sentences, AudioSizes),
          wav_ok \in BOOLEAN, ffmpeg_ok \in BOOLEAN :
           /\ sy_result' = synthesize_chapter(1, sy_sentences, audio, wav_ok,
                                               ffmpeg_ok)
           /\ sy_env' = [audio |-> audio, wav_ok |-> wav_ok,
                         ffmpeg_ok |-> ffmpeg_ok]
           /\ sy_sent' = SentTexts(sy_sentences, audio, sy_style_prompt,
                                   sy_narrator_style)
    /\ sy_done' = TRUE
    /\ UNCHANGED <<sy_sentences, sy_style_prompt, sy_narrator_style, chunkVars,
                   callVars, convertVars>>

NextSynth == SynthCall

SpecSynth == InitSynth /\ [][NextSynth]_vars

\* C10: the segments of a synthesized chapter partition [0, duration]: the
\* first starts at 0, each has start <= end, each ends where the next starts,
\* and the last ends at the duration of the concatenated audio.
SegmentsPartitionDuration ==
    (sy_done /\ ~sy_result.raised) =>
        LET segs == sy_result.segments IN
        /\ segs # <<>>
        /\ segs[1].start = <<0, 1>>
        /\ \A i \in 1..Len(segs) : RatLeq(segs[i].start, segs[i].end)
        /\ \A i \in 1..(Len(segs) - 1) : segs[i].end = segs[i + 1].start
        /\ segs[Len(segs)].end = <<sy_result.duration, 1>>

\* C10 witness: a chapter of three sentences in two batches was synthesized
\* with audio for both, and a sentence boundary falls strictly inside.
SegmentsPartitionWitness ==
    /\ sy_done /\ ~sy_result.raised
    /\ Len(sy_result.segments) = 3
    /\ Len(chunk_sentences(sy_sentences)) = 2
    /\ sy_result.duration = 96000
    /\ sy_result.segments[1].end # sy_result.segments[2].end
    /\ sy_result.segments[2].end # sy_result.segments[3].end

\* C11: the text sent for the first batch is the resolved style prompt
\* followed by the batch's sentences joined by spaces (with the blank line
\* between them when the prompt is not empty), and the text sent for every
\* later batch is the consistency reminder followed by the batch's sentences;
\* for the presets, an unknown preset name and a custom prompt.
BatchPrefixes ==
    sy_done =>
        LET chunks == chunk_sentences(sy_sentences)
            style == IF sy_style_prompt.given THEN sy_style_prompt.text
                     ELSE IF sy_narrator_style \in NARRATOR_STYLES
                     THEN StylePrompt(sy_narrator_style)
                     ELSE StylePrompt("classic")
        IN  /\ Len(sy_sent) = sy_result.calls
            /\ \A i \in 1..Len(sy_sent) :
                   IF i = 1
                   THEN sy_sent[i] \in {style \o ChunkText(chunks[i]),
                                        style \o <<BlankLine>> \o ChunkText(chunks[i])}
                   ELSE sy_sent[i] = CONSISTENCY_REMINDER \o ChunkText(chunks[i])

\* C11 witness: a chapter of two batches was sent with a custom style prompt,
\* and the second batch holds two sentences.
BatchPrefixesWitness ==
    /\ sy_done
    /\ sy_style_prompt = [given |-> TRUE, text |-> StylePrompt("custom")]
    /\ Len(sy_sent) = 2
    /\ sy_sent[1][1] = [style |-> "custom"]
    /\ Len(chunk_sentences(sy_sentences)[2]) = 2

-----------------------------------------------------------------------------
(* _extract_content_from_anchor, on every bounded document                  *)

\* Elements of the documents drawn.
MaxNodes == 4

\* href without "#": anchor = ""; no later entry in the file: next_anchor =
\* None. Both are falsy where the code tests them.
NoAnchor == 0

\* A document is its elements in document order: doc[i] is the parent of
\* element i (0: the body). Element i has the id i and the text i, before
\* the text of its children.
RECURSIVE IsAncestor(_, _, _)
IsAncestor(doc, x, y) ==
    /\ doc[y] # 0
    /\ (doc[y] = x \/ IsAncestor(doc, x, doc[y]))

\* The trees of up to max nodes, numbered in document order.
Forests(max) ==
    UNION { { doc \in [1..n -> 0..(n - 1)] :
                \A i \in 1..n :
                    /\ doc[i] < i
                    /\ i > 1 => \/ doc[i] = 0
                                \/ doc[i] = i - 1
                                \/ IsAncestor(doc, doc[i], i - 1) }
            : n \in 1..max }

HtmlDocuments == Forests(MaxNodes)

\* elem.get_text(separator=" "): the text of the element and its descendants
get_text(doc, elem) ==
    SetToSortedSeq({elem} \cup { j \in 1..Len(doc) : IsAncestor(doc, elem, j) })

\* elem.find_next_siblings()
find_next_siblings(doc, elem) ==
    SetToSortedSeq({ j \in (elem + 1)..Len(doc) : doc[j] = doc[elem] })

\* soup.find(id=...) / sibling.find(id=...): an id names an element or none
HasId(doc, id) == id \in 1..Len(doc)

RECURSIVE SiblingLoop(_, _, _, _)
\* epub_parser.py:102-112
SiblingLoop(doc, siblings, next_anchor_id, texts) ==
    IF siblings = <<>> THEN texts
    ELSE LET sibling == Head(siblings) IN
         IF next_anchor_id # NoAnchor /\ sibling = next_anchor_id
         THEN texts
         ELSE IF /\ next_anchor_id # NoAnchor
                 /\ HasId(doc, next_anchor_id)
                 /\ IsAncestor(doc, sibling, next_anchor_id)
         THEN texts
         ELSE SiblingLoop(doc, Tail(siblings), next_anchor_id,
                          texts \o get_text(doc, sibling))

\* epub_parser.py:81-118
extract_content_from_anchor(doc, anchor_id, next_anchor_id) ==
    IF ~HasId(doc, anchor_id) THEN <<>>
    ELSE SiblingLoop(doc, find_next_siblings(doc, anchor_id), next_anchor_id,
                     get_text(doc, anchor_id))

\* epub_parser.py:284-289: text_content of the entry
SectionText(doc, anchor, next_anchor) ==
    IF anchor # NoAnchor
    THEN extract_content_from_anchor(doc, anchor, next_anchor)
    ELSE [i \in 1..Len(doc) |-> i]

\* The anchors drawn: none, an element of the document, an id the document
\* does not have.
AnchorsOf(doc) == 0..(Len(doc) + 1)

InitExtract ==
    /\ ex_doc \in HtmlDocuments
    /\ ex_anchor \in AnchorsOf(ex_doc)
    /\ ex_next_anchor \in AnchorsOf(ex_doc)
    /\ ex_text = <<>>
    /\ ex_done = FALSE
    /\ FlattenIdle
    /\ SelectionIdle
    /\ ChunkIdle
    /\ SynthIdle
    /\ RoundTripIdle
    /\ ParseIdle
    /\ ConvertIdle

ExtractCall ==
    /\ ~ex_done
    /\ ex_text' = SectionText(ex_doc, ex_anchor, ex_next_anchor)
    /\ ex_done' = TRUE
    /\ UNCHANGED <<ex_doc, ex_anchor, ex_next_anchor, flattenVars,
                   selectionVars, roundTripVars, chunkVars, synthVars,
                   parseVars,
                   convertVars>>

NextExtract == ExtractCall

SpecExtract == InitExtract /\ [][NextExtract]_vars

\* C14: for an entry A and the next entry B of the same document, B's anchor
\* after A's (or A without an anchor), the text extracted for A holds no
\* text located at or after B's element.
ExtractStopsBeforeNext ==
    (/\ ex_done
     /\ HasId(ex_doc, ex_next_anchor)
     /\ ex_anchor < ex_next_anchor) =>
        \A i \in 1..Len(ex_text) : ex_text[i] < ex_next_anchor

-----------------------------------------------------------------------------
(* _flatten_toc, on every bounded outline                                   *)

\* Entries of the outlines drawn.
MaxEntries == 5

\* An entry of book.toc with the label and the reference of entry i.
Link(i) == [title |-> i, href |-> i]

\* (Link, [children])
Nested(section, children) ==
    [kind |-> "tuple", section |-> section, children |-> children]

\* A Link on its own
Simple(link) == [kind |-> "link", section |-> link, children |-> <<>>]

RECURSIVE TocItems(_, _, _)
\* book.toc for an outline given by the parent of each entry: the entries
\* under one parent, in order. An entry with children is (Link, [children]);
\* one without is a Link, or (Link, []) when wrap_leaves.
TocItems(outline, nodes, wrap_leaves) ==
    IF nodes = <<>> THEN <<>>
    ELSE LET i == Head(nodes)
             kids == SetToSortedSeq({ j \in 1..Len(outline) : outline[j] = i })
             item == IF kids = <<>> /\ ~wrap_leaves
                     THEN Simple(Link(i))
                     ELSE Nested(Link(i), TocItems(outline, kids, wrap_leaves))
         IN  <<item>> \o TocItems(outline, Tail(nodes), wrap_leaves)

BookToc(outline, wrap_leaves) ==
    TocItems(outline, SetToSortedSeq({ j \in 1..Len(outline) : outline[j] = 0 }),
             wrap_leaves)

RECURSIVE FlattenTopLevel(_)
\* The entries of the top level alone, children left out.
FlattenTopLevel(toc) ==
    IF toc = <<>> THEN <<>>
    ELSE <<<<Head(toc).section.title, Head(toc).section.href>>>>
         \o FlattenTopLevel(Tail(toc))

RECURSIVE flatten_toc(_)
\* epub_parser.py:61-78. Every entry is an ebooklib Link or Section, which
\* have title and href, so the hasattr tests pass.
flatten_toc(toc) ==
    IF toc = <<>> THEN <<>>
    ELSE LET item == Head(toc)
             own == <<<<item.section.title, item.section.href>>>>
         IN  (IF item.kind = "tuple"
              THEN own \o flatten_toc(item.children)
              ELSE own)
             \o flatten_toc(Tail(toc))

InitFlatten ==
    /\ ft_outline \in Forests(MaxEntries)
    /\ \E wrap_leaves \in BOOLEAN : ft_toc = BookToc(ft_outline, wrap_leaves)
    /\ ft_result = <<>>
    /\ ft_done = FALSE
    /\ ExtractIdle
    /\ SelectionIdle
    /\ ChunkIdle
    /\ SynthIdle
    /\ RoundTripIdle
    /\ ParseIdle
    /\ ConvertIdle

FlattenCall ==
    /\ ~ft_done
    /\ ft_result' = flatten_toc(ft_toc)
    /\ ft_done' = TRUE
    /\ UNCHANGED <<ft_outline, ft_toc, extractVars, selectionVars,
                   roundTripVars, chunkVars, synthVars, parseVars,
                   convertVars>>

NextFlatten == FlattenCall

SpecFlatten == InitFlatten /\ [][NextFlatten]_vars

\* C15: for an outline of N entries, numbered in pre-order (a parent before
\* its children, children in their order), _flatten_toc returns the N
\* (label, reference) pairs of entries 1, 2, ..., N in that order.
FlattenIsPreOrder ==
    ft_done =>
        /\ Len(ft_result) = Len(ft_outline)
        /\ \A i \in 1..Len(ft_result) : ft_result[i] = <<i, i>>

\* C15 witness: an outline of five entries three levels deep was flattened:
\* entry 1 holds 2 and 4, entry 2 holds 3, entry 5 is at the top.
FlattenIsPreOrderWitness ==
    /\ ft_done
    /\ ft_outline = <<0, 1, 2, 1, 0>>
    /\ Len(ft_result) = 5

-----------------------------------------------------------------------------
(* parse_section_selection, on every bounded selection string               *)

\* Parts of the selection strings drawn.
MaxParts == 2

\* A string is the sequence of its characters.
Digits == <<"0", "1", "2", "3", "4", "5", "6", "7", "8", "9">>

RECURSIVE Str(_)
\* str(n), n >= 0
Str(n) ==
    IF n < 10 THEN <<Digits[n + 1]>>
    ELSE Str(n \div 10) \o <<Digits[(n % 10) + 1]>>

\* The numbers written in the parts, and the values of max_index.
PartNumbers == {0, 1, 2, 3, 12}
MaxIndexes == {2, 3, 12}

\* The parts drawn: a single index, a range a-b, and texts that are neither.
SelectionParts ==
    { [kind |-> "single", a |-> a, b |-> a, text |-> Str(a)] : a \in PartNumbers }
    \cup
    { [kind |-> "range", a |-> a, b |-> b, text |-> Str(a) \o <<"-">> \o Str(b)] :
      a \in PartNumbers, b \in PartNumbers }
    \cup
    { [kind |-> "other", a |-> 0, b |-> 0, text |-> t] :
      t \in {<<>>, <<"-">>, <<"1", "-">>, <<"-", "2">>, <<"1", "-", "2", "-", "3">>} }

RECURSIVE JoinParts(_)
\* ",".join(part texts)
JoinParts(parts) ==
    IF Len(parts) = 1 THEN Head(parts).text
    ELSE Head(parts).text \o <<",">> \o JoinParts(Tail(parts))

\* The value of a failed int(): ValueError
ValueError == -1

RECURSIVE IntLoop(_, _)
IntLoop(chars, acc) ==
    IF chars = <<>> THEN acc
    ELSE IF \E d \in 1..10 : Digits[d] = Head(chars)
    THEN IntLoop(Tail(chars),
                 10 * acc + (CHOOSE d \in 1..10 : Digits[d] = Head(chars)) - 1)
    ELSE ValueError

\* int(text) on the characters drawn
ToInt(chars) == IF chars = <<>> THEN ValueError ELSE IntLoop(chars, 0)

RECURSIVE SplitLoop(_, _, _)
SplitLoop(chars, sep, current) ==
    IF chars = <<>> THEN <<current>>
    ELSE IF Head(chars) = sep
    THEN <<current>> \o SplitLoop(Tail(chars), sep, <<>>)
    ELSE SplitLoop(Tail(chars), sep, Append(current, Head(chars)))

\* text.split(sep)
Split(chars, sep) == SplitLoop(chars, sep, <<>>)

\* part.split("-", 1), for a part that has a "-"
SplitFirst(chars, sep) ==
    LET k == CHOOSE k \in 1..Len(chars) :
                 /\ chars[k] = sep
                 /\ \A j \in 1..(k - 1) : chars[j] # sep
    IN  <<SubSeq(chars, 1, k - 1), SubSeq(chars, k + 1, Len(chars))>>

\* A range read without its end: range(int(start), int(end)).
PartIndicesOpenEnd(part) ==
    IF \E k \in 1..Len(part) : part[k] = "-"
    THEN LET start == ToInt(SplitFirst(part, "-")[1])
             end == ToInt(SplitFirst(part, "-")[2])
         IN  IF start = ValueError \/ end = ValueError THEN {}
             ELSE start..(end - 1)
    ELSE IF ToInt(part) = ValueError THEN {} ELSE {ToInt(part)}

\* cli.py:34-45: the indices one part adds to the list
PartIndices(part) ==
    IF \E k \in 1..Len(part) : part[k] = "-"
    THEN LET start == ToInt(SplitFirst(part, "-")[1])
             end == ToInt(SplitFirst(part, "-")[2])
         IN  IF start = ValueError \/ end = ValueError THEN {}
             ELSE start..end
    ELSE IF ToInt(part) = ValueError THEN {} ELSE {ToInt(part)}

\* The selection read with no test of the indices against max_index.
ParseSelectionUnfiltered(selection, max_index) ==
    LET parts == Split(selection, ",")
    IN  SetToSortedSeq(UNION { PartIndices(parts[k]) : k \in 1..Len(parts) })

\* cli.py:31-45, on strings without spaces (replace(" ", "") changes nothing)
parse_section_selection(selection, max_index) ==
    LET parts == Split(selection, ",")
        indices == UNION { PartIndices(parts[k]) : k \in 1..Len(parts) }
    IN  SetToSortedSeq({ i \in indices : 1 <= i /\ i <= max_index })

InitSelection ==
    /\ ps_parts \in UNION { [1..n -> SelectionParts] : n \in 1..MaxParts }
    /\ ps_selection = JoinParts(ps_parts)
    /\ ps_max_index \in MaxIndexes
    /\ ps_result = <<>>
    /\ ps_done = FALSE
    /\ ExtractIdle
    /\ FlattenIdle
    /\ ChunkIdle
    /\ SynthIdle
    /\ RoundTripIdle
    /\ ParseIdle
    /\ ConvertIdle

SelectionCall ==
    /\ ~ps_done
    /\ ps_result' = parse_section_selection(ps_selection, ps_max_index)
    /\ ps_done' = TRUE
    /\ UNCHANGED <<ps_parts, ps_selection, ps_max_index, extractVars,
                   flattenVars, roundTripVars, chunkVars, synthVars,
                   parseVars,
                   convertVars>>

NextSelection == SelectionCall

SpecSelection == InitSelection /\ [][NextSelection]_vars

\* The indices of 1..max_index that the parts of the string name.
NamedIndices ==
    { i \in 1..ps_max_index :
        \E k \in 1..Len(ps_parts) :
            \/ ps_parts[k].kind = "single" /\ i = ps_parts[k].a
            \/ ps_parts[k].kind = "range" /\ ps_parts[k].a <= i /\ i <= ps_parts[k].b }

\* C16: for a selection string of single indices and ranges a-b, the list
\* returned is strictly increasing and holds exactly the indices of
\* 1..max_index that the parts name.
SelectionIsSortedSet ==
    (ps_done /\ \A k \in 1..Len(ps_parts) : ps_parts[k].kind # "other") =>
        /\ \A i \in 1..(Len(ps_result) - 1) : ps_result[i] < ps_result[i + 1]
        /\ { ps_result[i] : i \in 1..Len(ps_result) } = NamedIndices

\* C16 witness: "3,1-2" with max_index 12 was parsed to [1, 2, 3].
SelectionIsSortedSetWitness ==
    /\ ps_done
    /\ ps_selection = <<"3", ",", "1", "-", "2">>
    /\ ps_max_index = 12
    /\ ps_result = <<1, 2, 3>>

-----------------------------------------------------------------------------
(* BookMetadata.save and BookMetadata.load *)

\* Chapters in a metadata value saved
MaxSaved == 2

\* Python's None in a field that holds a string otherwise
None == "None"

\* 0 s, 0.5042 s and 1 s, in units of 1/48000 s
SavedDurations == {0, 24200, 48000}

SavedChapters ==
    { [number |-> n, title |-> [text |-> "Chapter", num |-> n],
       text_content |-> <<Sentence(1, 60)>>,
       audio_file |-> IF ext = "none" THEN NoFile ELSE AudioName(n, ext),
       transcript_file |-> IF ext = "wav" THEN TranscriptName(n) ELSE NoFile,
       duration_seconds |-> d] :
      n \in 1..MaxSaved, ext \in {"none", "wav", "mp3"}, d \in SavedDurations }

\* models.py:30-41: the BookMetadata values saved
SavedBooks ==
    { [id |-> "emma", title |-> "Emma", author |-> "Jane Austen",
       description |-> de, narrator_voice |-> "Puck",
       language_code |-> "en-GB", cover_image |-> co,
       total_chapters |-> tc, total_duration_seconds |-> td,
       chapters |-> chs] :
      de \in {"", "A novel"}, co \in {None, "cover.jpg"},
      tc \in 0..MaxSaved, td \in SavedDurations,
      chs \in UNION { [1..n -> SavedChapters] : n \in 0..MaxSaved } }

\* models.py:43-55 and 57-61: the dict json.dump writes; json.load gives the
\* same dict back (strings, numbers, null and lists are kept as they are)
BookMetadataToDict(md) ==
    [id |-> md.id, title |-> md.title, author |-> md.author,
     description |-> md.description, narrator_voice |-> md.narrator_voice,
     language_code |-> md.language_code, cover_image |-> md.cover_image,
     total_chapters |-> md.total_chapters,
     total_duration_seconds |-> Round2(md.total_duration_seconds),
     chapters |-> [i \in 1..Len(md.chapters) |-> ChapterToDict(md.chapters[i])]]

\* dict.get(key, default)
Get(data, key, default) == IF key \in DOMAIN data THEN data[key] ELSE default

\* The chapter loaded with its transcript_file left out.
LoadChapterNoTranscript(ch) ==
    [number |-> ch.number, title |-> ch.title, text_content |-> <<>>,
     audio_file |-> Get(ch, "audio_file", NoFile),
     transcript_file |-> NoFile,
     duration_seconds |-> Get(ch, "duration_seconds", 0)]

\* models.py:69-79
LoadChapter(ch) ==
    [number |-> ch.number, title |-> ch.title, text_content |-> <<>>,
     audio_file |-> Get(ch, "audio_file", NoFile),
     transcript_file |-> Get(ch, "transcript_file", NoFile),
     duration_seconds |-> Get(ch, "duration_seconds", 0)]

\* models.py:63-92
BookMetadataLoad(data) ==
    LET chapters == [i \in 1..Len(Get(data, "chapters", <<>>)) |->
                        LoadChapter(Get(data, "chapters", <<>>)[i])]
    IN  [id |-> data.id, title |-> data.title, author |-> data.author,
         description |-> Get(data, "description", ""),
         narrator_voice |-> Get(data, "narrator_voice", "Kore"),
         language_code |-> Get(data, "language_code", "en-US"),
         cover_image |-> Get(data, "cover_image", None),
         total_chapters |-> Get(data, "total_chapters", Len(chapters)),
         total_duration_seconds |-> Get(data, "total_duration_seconds", 0),
         chapters |-> chapters]

InitRoundTrip ==
    /\ rt_metadata \in SavedBooks
    /\ rt_data = NoBook
    /\ rt_loaded = NoBook
    /\ rt_pc = "new"
    /\ ExtractIdle
    /\ FlattenIdle
    /\ SelectionIdle
    /\ ChunkIdle
    /\ SynthIdle
    /\ ParseIdle
    /\ ConvertIdle

\* models.py:57-61
RoundTripSave ==
    /\ rt_pc = "new"
    /\ rt_data' = BookMetadataToDict(rt_metadata)
    /\ rt_pc' = "saved"
    /\ UNCHANGED <<rt_metadata, rt_loaded, extractVars, flattenVars,
                   selectionVars, chunkVars, synthVars, parseVars,
                   convertVars>>

\* models.py:63-92
RoundTripLoad ==
    /\ rt_pc = "saved"
    /\ rt_loaded' = BookMetadataLoad(rt_data)
    /\ rt_pc' = "loaded"
    /\ UNCHANGED <<rt_metadata, rt_data, extractVars, flattenVars,
                   selectionVars, chunkVars, synthVars, parseVars,
                   convertVars>>

NextRoundTrip == RoundTripSave \/ RoundTripLoad

SpecRoundTrip == InitRoundTrip /\ [][NextRoundTrip]_vars

\* The fields of the round trip other than the durations
SameButDurations(a, b) ==
    /\ a.id = b.id /\ a.title = b.title /\ a.author = b.author
    /\ a.description = b.description
    /\ a.narrator_voice = b.narrator_voice
    /\ a.language_code = b.language_code
    /\ a.cover_image = b.cover_image
    /\ a.total_chapters = b.total_chapters
    /\ Len(a.chapters) = Len(b.chapters)
    /\ \A i \in 1..Len(a.chapters) :
          /\ a.chapters[i].number = b.chapters[i].number
          /\ a.chapters[i].title = b.chapters[i].title
          /\ a.chapters[i].audio_file = b.chapters[i].audio_file
          /\ a.chapters[i].transcript_file = b.chapters[i].transcript_file

\* C20, as claimed: the metadata loaded equals the metadata saved on every
\* field saved, the durations among them.
RoundTripAsClaimed ==
    rt_pc = "loaded" =>
        /\ SameButDurations(rt_loaded, rt_metadata)
        /\ rt_loaded.total_duration_seconds = rt_metadata.total_duration_seconds
        /\ \A i \in 1..Len(rt_metadata.chapters) :
              rt_loaded.chapters[i].duration_seconds
                  = rt_metadata.chapters[i].duration_seconds

\* C20, amended: the metadata loaded equals the metadata saved on every
\* field saved but the durations, which are those saved rounded to 0.01 s;
\* saving and loading what was loaded gives it back unchanged.
RoundTripRounded ==
    rt_pc = "loaded" =>
        /\ SameButDurations(rt_loaded, rt_metadata)
        /\ rt_loaded.total_duration_seconds
               = Round2(rt_metadata.total_duration_seconds)
        /\ \A i \in 1..Len(rt_metadata.chapters) :
              rt_loaded.chapters[i].duration_seconds
                  = Round2(rt_metadata.chapters[i].duration_seconds)
        /\ BookMetadataLoad(BookMetadataToDict(rt_loaded)) = rt_loaded

\* C20 witness: a book of two chapters was saved and loaded; chapter 1 is
\* bound to a .wav and a transcript and its 0.5042 s came back as 0.50 s.
RoundTripRoundedWitness ==
    /\ rt_pc = "loaded"
    /\ Len(rt_metadata.chapters) = 2
    /\ rt_metadata.chapters[1].duration_seconds = 24200
    /\ rt_loaded.chapters[1].duration_seconds = 24000
    /\ rt_loaded.chapters[1].audio_file = AudioName(1, "wav")
    /\ rt_loaded.chapters[1].transcript_file = TranscriptName(1)
    /\ rt_loaded.cover_image = None

-----------------------------------------------------------------------------
(* parse_epub_sections, on every bounded table of contents *)

\* Entries of the flattened table of contents
MaxToc == 3

\* The documents of the book, in the order get_items_of_type gives them
BookDocuments == {1, 2}

\* Word counts drawn: under the 10 words a section needs, and over them
WordCounts == {5, 150}

\* epub_parser.py:246-259: a ToC entry is skipped by its title, or names a
\* document (doc 0: one the book does not have) and, after "#", an anchor:
\* none, one the document lacks, or one found, before content of so many words
TocEntries ==
    { [skip |-> TRUE, doc |-> 0, anchor |-> "none", words |-> 0],
      [skip |-> FALSE, doc |-> 0, anchor |-> "none", words |-> 0] }
    \cup { [skip |-> FALSE, doc |-> d, anchor |-> a, words |-> 0] :
           d \in BookDocuments, a \in {"none", "absent"} }
    \cup { [skip |-> FALSE, doc |-> d, anchor |-> "found", words |-> w] :
           d \in BookDocuments, w \in WordCounts }

\* The entry's text taken from the whole document when its anchor is absent.
EntryWordsWholeDocument(e, docs) ==
    IF e.anchor = "found" THEN e.words ELSE docs[e.doc]

\* epub_parser.py:284-291 and 92-94: the words of the text extracted for an
\* entry; _extract_content_from_anchor returns "" when the anchor is absent
EntryWords(e, docs) ==
    IF e.anchor = "none" THEN docs[e.doc]
    ELSE IF e.anchor = "absent" THEN 0
    ELSE e.words

\* The section numbered by the position of its entry in the ToC.
NewSectionTocIndex(section_idx, toc_idx, word_count) ==
    [index |-> toc_idx, title |-> [toc |-> toc_idx], word_count |-> word_count]

\* epub_parser.py:296-306
NewSection(section_idx, toc_idx, word_count) ==
    [index |-> section_idx, title |-> [toc |-> toc_idx], word_count |-> word_count]

RECURSIVE TocLoop(_, _, _, _)
\* epub_parser.py:246-306: st is [sections, section_idx]
TocLoop(toc, docs, i, st) ==
    IF i > Len(toc) THEN st.sections
    ELSE LET e == toc[i] IN
         IF e.skip \/ e.doc \notin DOMAIN docs
         THEN TocLoop(toc, docs, i + 1, st)
         ELSE LET word_count == EntryWords(e, docs) IN
              IF word_count < 10
              THEN TocLoop(toc, docs, i + 1, st)
              ELSE TocLoop(toc, docs, i + 1,
                       [sections |-> Append(st.sections,
                            NewSection(st.section_idx + 1, i, word_count)),
                        section_idx |-> st.section_idx + 1])

\* epub_parser.py:308-332: one section for each document
FallbackSections(docs) ==
    [idx \in 1..Len(docs) |->
        [index |-> idx, title |-> [doc |-> idx], word_count |-> docs[idx]]]

\* epub_parser.py:226-341: the sections of the ParsedEpub returned
parse_epub_sections(toc, docs) ==
    LET toc_sections == TocLoop(toc, docs, 1,
                                [sections |-> <<>>, section_idx |-> 0])
    IN  IF toc_sections # <<>> THEN toc_sections ELSE FallbackSections(docs)

InitParse ==
    /\ pe_toc \in UNION { [1..n -> TocEntries] : n \in 0..MaxToc }
    /\ pe_docs \in [BookDocuments -> WordCounts]
    /\ pe_sections = <<>>
    /\ pe_done = FALSE
    /\ ExtractIdle
    /\ FlattenIdle
    /\ SelectionIdle
    /\ RoundTripIdle
    /\ ChunkIdle
    /\ SynthIdle
    /\ ConvertIdle

\* cli.py:122
ParseCall ==
    /\ ~pe_done
    /\ pe_sections' = parse_epub_sections(pe_toc, pe_docs)
    /\ pe_done' = TRUE
    /\ UNCHANGED <<pe_toc, pe_docs, extractVars, flattenVars, selectionVars,
                   roundTripVars, chunkVars, synthVars, convertVars>>

NextParse == ParseCall

SpecParse == InitParse /\ [][NextParse]_vars

\* The sections come from the table of contents, not from the fallback.
FromToc == pe_sections # <<>> /\ "toc" \in DOMAIN pe_sections[1].title

\* The ToC entry at position i has a section.
HasSection(i) ==
    \E k \in 1..Len(pe_sections) : pe_sections[k].title = [toc |-> i]

\* C26: the parse returns; an entry whose anchor its document lacks has no
\* section, and every other entry that is not skipped, names a document of
\* the book and has 10 words or more still has its section.
AbsentAnchorExcluded ==
    (pe_done /\ \E i \in 1..Len(pe_toc) : pe_toc[i].anchor = "absent") =>
        /\ \A i \in 1..Len(pe_toc) :
              pe_toc[i].anchor = "absent" => ~HasSection(i)
        /\ (\E i \in 1..Len(pe_toc) : HasSection(i)) =>
              \A i \in 1..Len(pe_toc) :
                  (/\ pe_toc[i].anchor # "absent"
                   /\ ~pe_toc[i].skip
                   /\ pe_toc[i].doc \in BookDocuments
                   /\ (IF pe_toc[i].anchor = "found" THEN pe_toc[i].words
                       ELSE pe_docs[pe_toc[i].doc]) >= 10) => HasSection(i)

\* C26 witness: the second of three entries names an anchor its document
\* lacks; the first and the third are sections 1 and 2.
AbsentAnchorExcludedWitness ==
    /\ pe_done
    /\ Len(pe_toc) = 3
    /\ pe_toc[2].anchor = "absent"
    /\ pe_docs[pe_toc[2].doc] = 150
    /\ Len(pe_sections) = 2
    /\ pe_sections[1].title = [toc |-> 1]
    /\ pe_sections[2].title = [toc |-> 3]

-----------------------------------------------------------------------------
(* The convert command, run again and again over one document and one       *)
(* output directory. An option is drawn where the code first reads it.      *)

RunIdle ==
    /\ pc = "ready"
    /\ existing_metadata = NoMetadata
    /\ metadata = <<>>
    /\ section_selection = <<>>
    /\ sections_selected = <<>>
    /\ chapters_to_process = <<>>
    /\ pos = 1
    /\ skip_existing_chapters = TRUE
    /\ outcome = [n \in ChapterNums |-> "none"]
    /\ provider_calls = [n \in ChapterNums |-> FALSE]

Init ==
    /\ sections \in Documents
    /\ disk_metadata = NoMetadata
    /\ wav_files = [n \in ChapterNums |-> -1]
    /\ mp3_files = [n \in ChapterNums |-> -1]
    /\ transcript_files = [n \in ChapterNums |-> FALSE]
    /\ RunIdle
    /\ synth_count = 0
    /\ everBound = {}
    /\ forceUsed = FALSE
    /\ last_written = [n \in ChapterNums |-> NoFile]
    /\ ChunkIdle
    /\ SynthIdle
    /\ CallIdle

\* The --sections string that names the indices given: "1,2"
SelectionText(indices) ==
    JoinParts([i \in 1..Len(indices) |-> [text |-> Str(indices[i])]])

\* --sections strings that name no section: an index past the last section,
\* and a text that is no number
OtherSelections == { Str(NumSections + 1), <<"-">> }

\* The selections of one run: --sections (as parse_section_selection returns
\* it), or, without it, --start-chapter and --end-chapter.
RunSelections ==
    { [section_selection |-> SelectionText(SetToSortedSeq(S)),
       selected_indices |-> SetToSortedSeq(S), start_chapter |-> 1,
       end_chapter |-> NoEnd] : S \in (SUBSET (1..NumSections)) \ {{}} }
    \cup
    { [section_selection |-> <<>>, selected_indices |-> <<>>,
       start_chapter |-> a, end_chapter |-> b] :
      a \in 1..NumSections, b \in {NoEnd} \cup (1..NumSections) }
    \cup
    { [section_selection |-> t,
       selected_indices |-> parse_section_selection(t, NumSections),
       start_chapter |-> a, end_chapter |-> NoEnd] :
      t \in OtherSelections, a \in 1..NumSections }

\* cli.py:120-244: parse, assemble, load and merge, select
ConvertAssemble ==
    /\ pc = "ready"
    /\ \E sel \in RunSelections, include_headings \in BOOLEAN :
          LET chapters == AssembleChapters(sections, sel.selected_indices,
                                           include_headings)
              merged == MergedChapters(chapters, LoadExisting(disk_metadata))
              ctp == ChaptersToProcess(merged, all_content_indices(sections),
                                       sel.selected_indices, sel.start_chapter,
                                       sel.end_chapter)
          IN  /\ existing_metadata' = LoadExisting(disk_metadata)
              /\ metadata' = merged
              /\ section_selection' = sel.section_selection
              /\ sections_selected' = sel.selected_indices
              /\ chapters_to_process' = ctp
              /\ outcome' = [n \in ChapterNums |->
                                IF \E i \in 1..Len(ctp) : merged[ctp[i]].number = n
                                THEN "pending" ELSE "none"]
    /\ pc' = "selected"
    /\ UNCHANGED <<sections, diskVars, pos, skip_existing_chapters,
                   provider_calls, histVars, chunkVars, synthVars, callVars>>

\* cli.py:246-254: no chapter is selected, or this is a dry run
ConvertReturnEarly ==
    /\ pc = "selected"
    /\ \E dry_run \in BOOLEAN : chapters_to_process = <<>> \/ dry_run
    /\ pc' = "returned"
    /\ section_selection' = <<>>
    /\ sections_selected' = <<>>
    /\ UNCHANGED <<sections, diskVars, existing_metadata, metadata,
                   chapters_to_process, pos, skip_existing_chapters, outcome,
                   provider_calls, histVars, chunkVars, synthVars, callVars>>

\* cli.py:256-281: the run goes on to the run loop
ConvertEnterLoop ==
    /\ pc = "selected"
    /\ chapters_to_process # <<>>
    /\ \E skip_existing \in BOOLEAN, force \in BOOLEAN :
          /\ skip_existing_chapters' = SkipExistingChapters(skip_existing, force)
          /\ forceUsed' = (forceUsed \/ force)
          /\ everBound' = IF force THEN {} ELSE everBound
    /\ pos' = 1
    /\ pc' = "loop"
    /\ section_selection' = <<>>
    /\ sections_selected' = <<>>
    /\ UNCHANGED <<sections, diskVars, existing_metadata, metadata,
                   chapters_to_process, outcome, provider_calls, synth_count,
                   last_written, chunkVars, synthVars, callVars>>

Current == metadata[chapters_to_process[pos]]

ArtifactExists(n) == mp3_files[n] >= 0 \/ wav_files[n] # -1

\* The skip that takes the duration from the artifact every time.
SkipExistingOverwrite ==
    /\ pc = "loop" /\ pos <= Len(chapters_to_process)
    /\ ShouldSkip(skip_existing_chapters, mp3_files[Current.number],
                  wav_files[Current.number])
    /\ ExistingReadable(mp3_files[Current.number], wav_files[Current.number])
    /\ LET n == Current.number
           ext == IF mp3_files[n] >= 0 THEN "mp3" ELSE "wav"
           duration == ExistingDuration(wav_files[n], mp3_files[n])
       IN  metadata' = [metadata EXCEPT ![chapters_to_process[pos]] =
               [@ EXCEPT !.audio_file = AudioName(n, ext),
                         !.duration_seconds = duration,
                         !.transcript_file = IF transcript_files[n]
                                             THEN TranscriptName(n) ELSE @]]
    /\ outcome' = [outcome EXCEPT ![Current.number] = "skipped"]
    /\ pos' = pos + 1
    /\ UNCHANGED <<sections, diskVars, pc, existing_metadata, chapters_to_process,
                   skip_existing_chapters, provider_calls, histVars,
                   section_selection,
                   sections_selected, chunkVars, synthVars, callVars>>

\* cli.py:290-309: the chapter's artifact is found, read and kept
SkipExisting ==
    /\ pc = "loop" /\ pos <= Len(chapters_to_process)
    /\ ShouldSkip(skip_existing_chapters, mp3_files[Current.number],
                  wav_files[Current.number])
    /\ ExistingReadable(mp3_files[Current.number], wav_files[Current.number])
    /\ LET n == Current.number
           ext == IF mp3_files[n] >= 0 THEN "mp3" ELSE "wav"
           duration == ExistingDuration(wav_files[n], mp3_files[n])
       IN  metadata' = [metadata EXCEPT ![chapters_to_process[pos]] =
               [@ EXCEPT !.audio_file = AudioName(n, ext),
                         !.duration_seconds = IF @ = 0 THEN duration ELSE @,
                         !.transcript_file = IF transcript_files[n]
                                             THEN TranscriptName(n) ELSE @]]
    /\ outcome' = [outcome EXCEPT ![Current.number] = "skipped"]
    /\ pos' = pos + 1
    /\ UNCHANGED <<sections, diskVars, pc, existing_metadata, chapters_to_process,
                   skip_existing_chapters, provider_calls, histVars,
                   section_selection,
                   sections_selected, chunkVars, synthVars, callVars>>

\* tts_service.py:129-131: TranscriptData.save ends well, or raises while
\* it writes (the file exists, cut short)
TranscriptSaves == {"saved", "raises"}

\* cli.py:290, 310-336: no artifact to keep, or one that cannot be read
\* (except: pass): the chapter is synthesized; the provider, the write of the
\* .wav, the transcoder and the transcript's save answer as they may
Generate ==
    /\ pc = "loop" /\ pos <= Len(chapters_to_process)
    /\ ~(/\ ShouldSkip(skip_existing_chapters, mp3_files[Current.number],
                       wav_files[Current.number])
         /\ ExistingReadable(mp3_files[Current.number], wav_files[Current.number]))
    /\ synth_count < MaxSynth
    /\ synth_count' = synth_count + 1
    /\ \E audio \in AudioAnswers(Current.text_content, ConvertAudioSizes),
          wav_ok \in BOOLEAN, ffmpeg_ok \in BOOLEAN, saved \in TranscriptSaves :
          LET n == Current.number
              r == synthesize_chapter(n, Current.text_content, audio, wav_ok,
                                      ffmpeg_ok)
          IN  /\ provider_calls' = [provider_calls EXCEPT ![n] = @ \/ (r.calls > 0)]
              /\ last_written' = [last_written EXCEPT ![n] =
                                      IF r.raised THEN @ ELSE r.audio_file]
              /\ IF r.raised
                 THEN /\ outcome' = [outcome EXCEPT ![n] = "failed"]
                      /\ pos' = NextAfterError(pos, Len(chapters_to_process))
                      /\ wav_files' = [wav_files EXCEPT ![n] =
                                          IF r.wav = Unreadable THEN r.wav ELSE @]
                      /\ UNCHANGED <<metadata, mp3_files, transcript_files>>
                 ELSE /\ wav_files' = [wav_files EXCEPT ![n] = r.wav]
                      /\ mp3_files' = [mp3_files EXCEPT ![n] =
                                          IF r.mp3 >= 0 THEN r.mp3 ELSE @]
                      /\ transcript_files' = [transcript_files EXCEPT ![n] = TRUE]
                      /\ metadata' = [metadata EXCEPT ![chapters_to_process[pos]] =
                             [@ EXCEPT !.audio_file = r.audio_file,
                                       !.duration_seconds = r.duration,
                                       !.transcript_file = IF saved = "saved"
                                                           THEN TranscriptName(n) ELSE @]]
                      /\ outcome' = [outcome EXCEPT ![n] =
                                        IF saved = "saved" THEN "generated" ELSE "failed"]
                      /\ pos' = IF saved = "saved" THEN pos + 1
                                ELSE NextAfterError(pos, Len(chapters_to_process))
    /\ UNCHANGED <<sections, disk_metadata, pc, existing_metadata,
                   chapters_to_process, skip_existing_chapters, everBound,
                   forceUsed, section_selection,
                   sections_selected, chunkVars, synthVars, callVars>>

BoundNumbers(chapters) ==
    { chapters[i].number : i \in { j \in 1..Len(chapters) :
                                   chapters[j].audio_file # NoFile } }

\* cli.py:338-349: the total is summed and metadata.json written
ConvertFinish ==
    /\ pc = "loop" /\ pos > Len(chapters_to_process)
    /\ disk_metadata' = SavedMetadata(metadata)
    /\ everBound' = IF forceUsed THEN {} ELSE everBound \cup BoundNumbers(metadata)
    /\ pc' = "done"
    /\ UNCHANGED <<sections, wav_files, mp3_files, transcript_files,
                   existing_metadata, metadata, chapters_to_process, pos,
                   skip_existing_chapters, outcome, provider_calls,
                   synth_count, forceUsed, last_written, section_selection,
                   sections_selected, chunkVars,
                   synthVars, callVars>>

\* cli.py:344 and models.py:57-61: save raises and convert ends with the
\* error. open() either failed, and the file is as it was, or had truncated
\* the file before the write failed.
ConvertSaveFails ==
    /\ pc = "loop" /\ pos > Len(chapters_to_process)
    /\ \E opened \in BOOLEAN :
          disk_metadata' = IF opened THEN TruncatedMetadata ELSE disk_metadata
    /\ pc' = "crashed"
    /\ UNCHANGED <<sections, wav_files, mp3_files, transcript_files,
                   existing_metadata, metadata, chapters_to_process, pos,
                   skip_existing_chapters, outcome, provider_calls,
                   histVars, section_selection,
                   sections_selected, chunkVars, synthVars, callVars>>

\* cli.py:248, 254, 349: convert returns, or has raised, and the process ends
ConvertExit ==
    /\ pc \in {"done", "returned", "crashed"}
    /\ pc' = "ready"
    /\ existing_metadata' = NoMetadata
    /\ metadata' = <<>>
    /\ section_selection' = <<>>
    /\ sections_selected' = <<>>
    /\ chapters_to_process' = <<>>
    /\ pos' = 1
    /\ skip_existing_chapters' = TRUE
    /\ outcome' = [n \in ChapterNums |-> "none"]
    /\ provider_calls' = [n \in ChapterNums |-> FALSE]
    /\ UNCHANGED <<sections, diskVars, histVars, chunkVars, synthVars, callVars>>

Next ==
    \/ ConvertAssemble
    \/ ConvertReturnEarly
    \/ ConvertEnterLoop
    \/ SkipExisting
    \/ Generate
    \/ ConvertFinish
    \/ ConvertSaveFails
    \/ ConvertExit

Spec == Init /\ [][Next]_vars

-----------------------------------------------------------------------------
(* Properties of the convert runs *)

InRun == pc \in {"selected", "loop", "done", "returned", "crashed"}

ProcessedNumbers ==
    { metadata[chapters_to_process[i]].number : i \in 1..Len(chapters_to_process) }

\* The chapter list of the run that selects every chapter (no --sections,
\* --start-chapter 1, no --end-chapter).
AllChaptersRun(include_headings) ==
    AssembleChapters(sections, <<>>, include_headings)

\* C1: a chapter in the processing set of a run has the number and the title
\* that its section has in the run that selects every chapter, whatever the
\* run's --sections, --start-chapter and --end-chapter: two runs never number
\* a section differently.
SelectionKeepsNumbering ==
    InRun =>
        \A i \in 1..Len(chapters_to_process) :
            LET ch == metadata[chapters_to_process[i]] IN
            \A include_headings \in BOOLEAN :
                LET ref == AllChaptersRun(include_headings) IN
                \A k \in 1..Len(ref) :
                    ref[k].sec = ch.sec =>
                        ref[k].number = ch.number /\ ref[k].title = ch.title

\* C1 witness: of a book of two chapters a run selected the second alone, and
\* it is chapter 2 of section 2.
SelectionKeepsNumberingWitness ==
    /\ pc = "selected"
    /\ Len(metadata) = 2
    /\ Len(chapters_to_process) = 1
    /\ metadata[chapters_to_process[1]].number = 2
    /\ metadata[chapters_to_process[1]].sec = 2

\* C2: the numbers of the chapter list built for the canonical content set
\* are 1..len(chapters), in order.
ChapterNumbersContiguous ==
    InRun => \A i \in 1..Len(metadata) : metadata[i].number = i

ChapterFails ==
    /\ pc = "loop" /\ pos <= Len(chapters_to_process)
    /\ outcome'[Current.number] = "failed"

\* C5: a chapter that ends in an error moves the run loop to the next chapter
\* and leaves every other chapter's binding and files as they were; a run
\* that ends has visited every chapter selected and has saved the metadata.
RunLoopGoesOn ==
    /\ [](pc = "done" =>
             /\ \A n \in ChapterNums : outcome[n] # "pending"
             /\ \A n \in ProcessedNumbers : outcome[n] \in {"generated", "skipped", "failed"}
             /\ disk_metadata = SavedMetadata(metadata))
    /\ [][ChapterFails =>
             /\ pc' = "loop" /\ pos' = pos + 1
             /\ chapters_to_process' = chapters_to_process
             /\ \A i \in 1..Len(metadata) :
                    i # chapters_to_process[pos] => metadata'[i] = metadata[i]
             /\ \A n \in ChapterNums :
                    n # Current.number =>
                        /\ wav_files'[n] = wav_files[n]
                        /\ mp3_files'[n] = mp3_files[n]
                        /\ transcript_files'[n] = transcript_files[n]]_vars

\* C5 witness: in a run over chapters 1 and 2 the first failed on a provider
\* error, the second was generated, and the metadata was saved with it.
RunLoopGoesOnWitness ==
    /\ pc = "done"
    /\ outcome[1] = "failed" /\ provider_calls[1] /\ wav_files[1] = -1 /\ mp3_files[1] < 0
    /\ outcome[2] = "generated"
    /\ \E j \in 1..Len(disk_metadata.chapters) :
           /\ disk_metadata.chapters[j].number = 2
           /\ disk_metadata.chapters[j].audio_file # NoFile

\* C6, as claimed: with skip-existing on and the run not forced, a chapter
\* whose .mp3 or .wav exists is skipped: no provider call and no artifact
\* written.
ExistingIsSkippedAsClaimed ==
    [][(/\ pc = "loop" /\ pos <= Len(chapters_to_process)
        /\ skip_existing_chapters
        /\ ArtifactExists(Current.number)) =>
            /\ outcome'[Current.number] = "skipped"
            /\ provider_calls' = provider_calls
            /\ wav_files' = wav_files /\ mp3_files' = mp3_files]_vars

\* C6, amended: the same, for a chapter whose .mp3 exists or whose .wav
\* exists and can be read: no provider call, no call of synthesize_chapter,
\* and no artifact written.
ExistingIsSkipped ==
    [][(/\ pc = "loop" /\ pos <= Len(chapters_to_process)
        /\ skip_existing_chapters
        /\ ArtifactExists(Current.number)
        /\ ExistingReadable(mp3_files[Current.number], wav_files[Current.number])) =>
            /\ outcome'[Current.number] = "skipped"
            /\ provider_calls' = provider_calls
            /\ synth_count' = synth_count
            /\ wav_files' = wav_files /\ mp3_files' = mp3_files
            /\ transcript_files' = transcript_files]_vars

\* C6 witness: a chapter left as .wav alone was skipped, with no provider call.
ExistingIsSkippedWitness ==
    /\ pc = "loop"
    /\ skip_existing_chapters
    /\ \E n \in ChapterNums :
           /\ outcome[n] = "skipped"
           /\ wav_files[n] >= 0 /\ mp3_files[n] < 0
           /\ ~provider_calls[n]

\* C7: in the metadata a run writes, a chapter with an audio_file has
\* duration_seconds > 0.
BoundChapterHasDuration ==
    \A j \in 1..Len(disk_metadata.chapters) :
        disk_metadata.chapters[j].audio_file # NoFile =>
            disk_metadata.chapters[j].duration_seconds > 0

\* C12: the i-th section that passes the classifier (at least 100 words, no
\* front-matter title) is chapter i of the chapter list, with its title.
CanonicalNumbering ==
    InRun =>
        LET idx == all_content_indices(sections) IN
        /\ Len(metadata) = Len(idx)
        /\ \A i \in 1..Len(idx) :
               /\ metadata[i].number = i
               /\ metadata[i].sec = idx[i]
               /\ metadata[i].title = sections[idx[i]].title

\* C13: after the merge step, a new chapter whose number is that of an old
\* chapter with an audio_file has the old chapter's audio_file,
\* duration_seconds and transcript_file; every other new chapter has no
\* audio_file, no transcript_file and duration 0.
MergeKeysOnNumber ==
    pc = "selected" =>
        \A i \in 1..Len(metadata) :
            LET new_ch == metadata[i]
                olds == { k \in 1..Len(existing_metadata.chapters) :
                            /\ existing_metadata.chapters[k].number = new_ch.number
                            /\ existing_metadata.chapters[k].audio_file # NoFile }
            IN  IF olds # {}
                THEN \A k \in olds :
                        LET old_ch == existing_metadata.chapters[k] IN
                        /\ new_ch.audio_file = old_ch.audio_file
                        /\ new_ch.duration_seconds = old_ch.duration_seconds
                        /\ new_ch.transcript_file = old_ch.transcript_file
                ELSE /\ new_ch.audio_file = NoFile
                     /\ new_ch.transcript_file = NoFile
                     /\ new_ch.duration_seconds = 0

\* C13 witness: the merge gave chapter 1 the file, the duration and the
\* transcript of the old chapter 1, and left chapter 2, unbound in the old
\* metadata, unbound.
MergeKeysOnNumberWitness ==
    /\ pc = "selected"
    /\ Len(metadata) = 2
    /\ Len(existing_metadata.chapters) = 2
    /\ existing_metadata.chapters[1].audio_file = AudioName(1, "mp3")
    /\ existing_metadata.chapters[2].audio_file = NoFile
    /\ metadata[1].audio_file = AudioName(1, "mp3")
    /\ metadata[1].duration_seconds = Round2(24200)
    /\ metadata[1].transcript_file = TranscriptName(1)
    /\ metadata[2].audio_file = NoFile

\* C17: with an explicit selection, if the chapter list is as long as the
\* canonical index list the chapters processed are exactly those whose
\* section is selected; if not, every chapter of the list is processed. No
\* chapter is processed for a selected index that is another section's.
SelectionMapsSections ==
    (pc = "selected" /\ sections_selected # <<>>) =>
        LET selected == { sections_selected[k] : k \in 1..Len(sections_selected) }
            processed == { chapters_to_process[k] : k \in 1..Len(chapters_to_process) }
        IN  IF Len(metadata) = Len(all_content_indices(sections))
            THEN \A i \in 1..Len(metadata) :
                    i \in processed <=> metadata[i].sec \in selected
            ELSE chapters_to_process = [i \in 1..Len(metadata) |-> i]

\* C17 witness: section 1 passes the classifier and gives no chapter, so the
\* list (chapter 2 alone) is shorter than the canonical index list; with
\* section 1 selected the run processes the whole list.
SelectionMapsSectionsWitness ==
    /\ pc = "selected"
    /\ sections_selected = <<1>>
    /\ Len(all_content_indices(sections)) = 2
    /\ Len(metadata) = 1
    /\ chapters_to_process = <<1>>
    /\ metadata[1].sec = 2

\* C18: when BookMetadata.save fails, the metadata file the run had loaded
\* is still on disk, readable, with the content it had.
SaveFailureKeepsMetadata ==
    (pc = "crashed" /\ existing_metadata.exists) =>
        /\ disk_metadata.readable
        /\ disk_metadata = existing_metadata

NumberedTitles(chapters) ==
    [i \in 1..Len(chapters) |-> <<chapters[i].number, chapters[i].title>>]

EmptyAudioFailsChapter ==
    \A i \in 1..Len(metadata) :
        outcome[metadata[i].number] = "generated" =>
            metadata[i].duration_seconds > 0

\* Every chapter of the run has been generated, skipped or failed.
AllSelectedTerminal ==
    \A n \in ProcessedNumbers : outcome[n] \in {"generated", "skipped", "failed"}

SkipKeepsKnownDuration ==
    [][(/\ pc = "loop" /\ pos <= Len(chapters_to_process)
        /\ outcome'[Current.number] = "skipped") =>
           LET p == chapters_to_process[pos]
               n == metadata[p].number
           IN  metadata'[p].duration_seconds =
                   IF metadata[p].duration_seconds # 0
                   THEN metadata[p].duration_seconds
                   ELSE IF mp3_files[n] >= 0 THEN 2 * mp3_files[n]
                   ELSE wav_files[n] - (wav_files[n] % 2)]_vars

\* C24 witness: chapter 1 was skipped; it has the 0.50 s merged from the old
\* metadata, not the 0.5042 s of the .wav on disk.
SkipKeepsKnownDurationWitness ==
    /\ pc = "loop"
    /\ outcome[1] = "skipped"
    /\ mp3_files[1] = -1
    /\ wav_files[1] = 24200
    /\ \E i \in 1..Len(metadata) :
          /\ metadata[i].number = 1
          /\ metadata[i].duration_seconds = Round2(24200)
          /\ metadata[i].audio_file = AudioName(1, "wav")

\* Longest division of the chapter text into sentences
MaxPieces == 5

\* The chapter text of the scenario, in characters
ChapterChars == 9000

\* A step of sentence lengths: a sentence has a whole number of steps of
\* characters, the space that follows it counted in, the last sentence
\* having no space after it
LenStep == 500

RECURSIVE SumSeq(_)
SumSeq(s) == IF s = <<>> THEN 0 ELSE Head(s) + SumSeq(Tail(s))

\* The divisions of a text of ChapterChars characters into sentences that
\* each fit the budget, joined by single spaces
TextDivisions ==
    { [i \in 1..Len(ks) |->
          [id |-> i, len |-> IF i = Len(ks) THEN LenStep * ks[i]
                             ELSE LenStep * ks[i] - 1]] :
      ks \in { k \in UNION { [1..n -> 1..(MAX_CHUNK_CHARS \div LenStep)] :
                             n \in 1..MaxPieces } :
               LenStep * SumSeq(k) = ChapterChars } }

InitBudget ==
    /\ ck_sentences \in TextDivisions
    /\ ck_chunks = <<>>
    /\ ck_done = FALSE
    /\ SynthIdle
    /\ CallIdle
    /\ ConvertIdle

SpecBudget == InitBudget /\ [][NextChunk]_vars

SectionIndicesContiguous ==
    pe_done =>
        /\ \A k \in 1..Len(pe_sections) : pe_sections[k].index = k
        /\ \A idx \in 1..Len(pe_sections) :
              \E k \in 1..Len(pe_sections) : pe_sections[k].index = idx

\* C30 witness: of three entries the first two are left out (one skipped by
\* its title, one under 10 words) and the third is section 1.
SectionIndicesContiguousWitness ==
    /\ pe_done
    /\ Len(pe_toc) = 3
    /\ pe_toc[1].skip
    /\ pe_toc[2].anchor = "found" /\ pe_toc[2].words < 10
    /\ FromToc
    /\ Len(pe_sections) = 1
    /\ pe_sections[1].title = [toc |-> 3]
    /\ pe_sections[1].index = 1

\* C29: a --sections string that names no index in 1..len(sections) gives an
\* empty selection, and the run takes its chapters by the chapter range: all
\* chapters from --start-chapter on, which is every chapter by default.
EmptySelectionFallsThrough ==
    (pc = "selected" /\ section_selection \in OtherSelections) =>
        /\ sections_selected = <<>>
        /\ \E start_chapter \in 1..NumSections :
              chapters_to_process =
                  SelectSeq([i \in 1..Len(metadata) |-> i],
                            LAMBDA i : metadata[i].number >= start_chapter)

\* C29 witness: --sections names the index after the last section; the run
\* has two chapters and will process both.
EmptySelectionFallsThroughWitness ==
    /\ pc = "selected"
    /\ section_selection = Str(NumSections + 1)
    /\ sections_selected = <<>>
    /\ Len(metadata) = 2
    /\ chapters_to_process = <<1, 2>>

\* cli.py:183-197: the audio_file, duration_seconds and transcript_file a
\* chapter of this run had when the merge was done: those of the chapter
\* assembled (None, 0.0, None), with the loaded chapter's laid over them
AfterMerge(ch) ==
    LET assembled == [ch EXCEPT !.audio_file = NoFile,
                                !.duration_seconds = 0,
                                !.transcript_file = NoFile]
    IN  IF existing_metadata.exists
        THEN MergeChapter(assembled, existing_metadata.chapters)
        ELSE assembled

\* C27: a chapter whose processing raised in the run loop has, in the
\* metadata the run saves, the audio_file, the duration_seconds and the
\* transcript_file it had after the merge step.
FailedChapterKeepsMergeValues ==
    pc = "done" =>
        \A i \in 1..Len(chapters_to_process) :
            LET j == chapters_to_process[i]
                merged == AfterMerge(metadata[j])
                saved == disk_metadata.chapters[j]
            IN  outcome[metadata[j].number] = "failed" =>
                    /\ saved.audio_file = merged.audio_file
                    /\ saved.duration_seconds = Round2(merged.duration_seconds)
                    /\ saved.transcript_file = merged.transcript_file

\* C28: in the metadata a run saves, the audio_file recorded for a chapter
\* is the artifact that the most recent synthesis of the chapter that
\* returned has written, in this run or in one before it.
AudioFileIsLastWritten ==
    pc = "done" =>
        \A j \in 1..Len(disk_metadata.chapters) :
            LET ch == disk_metadata.chapters[j] IN
            (ch.audio_file # NoFile /\ last_written[ch.number] # NoFile) =>
                ch.audio_file = last_written[ch.number]

====
